---- MODULE Spec2Model ----
(***************************************************************************)
(* A model of bbengine::mem::FreeListAllocator                             *)
(* (src/FreeListAllocator/FreeListAllocator.cpp and .h).                   *)
(*                                                                         *)
(* The allocator keeps all of its bookkeeping inside the heap buffer, so   *)
(* the model keeps the buffer as bytes: a block header is eight bytes,     *)
(* block_s::next at offset 0 and block_s::size at offset 4, both 32-bit    *)
(* little-endian words (the code casts pointers to u32, so the target has  *)
(* 32-bit pointers).  A u32 is a record [hi, lo] of two 16-bit halves, so  *)
(* that arithmetic modulo 2^32 is exact.                                   *)
(***************************************************************************)
EXTENDS Integers, FiniteSets, Sequences, TLC

(***************************************************************************)
(* Bounds of the model.                                                    *)
(***************************************************************************)
\* the largest heapSize handed to the constructor is 8 * HeapUnits
HeapUnits == 7
\* alignments passed to AllocateAligned are 2^0 .. 2^MaxAlignExp
MaxAlignExp == 4
\* bytes of address space modelled past the end of the largest heap buffer
Slack == 16
\* the aligned buffer base is the address 8 * BaseIndex
BaseIndex == 2
\* the number of calls made on one allocator
MaxCalls == 4

(***************************************************************************)
(* u32 arithmetic.                                                         *)
(***************************************************************************)
Half == 256 * 256

U32 == [hi : 0..(Half - 1), lo : 0..(Half - 1)]

\* the u32 of a natural number below 2^31
U(n) == [hi |-> n \div Half, lo |-> n % Half]

Add32(a, b) ==
    LET s == a.lo + b.lo
    IN  [hi |-> (a.hi + b.hi + (s \div Half)) % Half, lo |-> s % Half]

Sub32(a, b) ==
    LET d == a.lo - b.lo
        borrow == IF d < 0 THEN 1 ELSE 0
    IN  [hi |-> (a.hi - b.hi - borrow + 2 * Half) % Half, lo |-> (d + Half) % Half]

Le32(a, b) == a.hi < b.hi \/ (a.hi = b.hi /\ a.lo <= b.lo)

Lt32(a, b) == a.hi < b.hi \/ (a.hi = b.hi /\ a.lo < b.lo)

\* v | mask and v & ~mask for a mask that is one low bit
OrBit(v, mask) == [v EXCEPT !.lo = IF (v.lo \div mask) % 2 = 0 THEN v.lo + mask ELSE v.lo]

ClearBit(v, mask) == [v EXCEPT !.lo = IF (v.lo \div mask) % 2 = 1 THEN v.lo - mask ELSE v.lo]

TestBit(v, mask) == (v.lo \div mask) % 2 = 1

\* v modulo a power of two that is at most 2^16
ModPow2(v, a) == v.lo % a

(***************************************************************************)
(* Constants of the program.                                               *)
(***************************************************************************)
NULL == U(0)

FREE_BIT_MASK == 1

ALIGN_8 == 8

\* sizeof( FreeListAllocator::block_s ): a 32-bit pointer and a u32
SizeofBlock == 8

\* offsets of block_s::next and block_s::size
OffNext == 0

OffSize == 4

\* engine/memory/MemoryUtils.h is not part of the sources: the rounding is
\* modelled from its contract (round up to the next multiple of a power of
\* two), computed in u32 as ( value + alignment - 1 ) & ~( alignment - 1 )
MemUtils_Align(value, alignment) ==
    LET t == Add32(value, U(alignment - 1))
    IN  [t EXCEPT !.lo = t.lo - (t.lo % alignment)]

ALIGNED_HEADER_SIZE == MemUtils_Align(U(SizeofBlock), ALIGN_8)

MIN_ALLOC_SIZE == Add32(ALIGNED_HEADER_SIZE, ALIGNED_HEADER_SIZE)

\* the header size as a number
HDR == ALIGNED_HEADER_SIZE.lo

MaxHeapSize == ALIGN_8 * HeapUnits

(***************************************************************************)
(* The address space.  The buffer malloc returns lies at m_heap; the model *)
(* keeps the bytes of addresses 0 .. MemSize-1.  A byte the program never  *)
(* wrote is indeterminate (-1).                                            *)
(***************************************************************************)
\* an 8-byte aligned buffer base
AlignedBase == ALIGN_8 * BaseIndex

\* the buffer bases the constructor is explored with: the eight addresses up
\* to AlignedBase, one for each padding 0..7 in front of the first aligned
\* address
Bases == (AlignedBase - (ALIGN_8 - 1))..AlignedBase

MemSize == AlignedBase + MaxHeapSize + Slack

Addr == 0..(MemSize - 1)

Indet == 0 - 1

\* an 8-byte header at pointer p lies in the modelled address space
Mapped(p) == p.hi = 0 /\ p.lo + HDR <= MemSize

\* a 32-bit load; a is a modelled address
Load32(m, a) ==
    [lo |-> m[a] + 256 * m[a + 1], hi |-> m[a + 2] + 256 * m[a + 3]]

Store32(m, a, v) ==
    [m EXCEPT ![a] = v.lo % 256, ![a + 1] = v.lo \div 256,
              ![a + 2] = v.hi % 256, ![a + 3] = v.hi \div 256]

\* the eight bytes of the header at p were all written before
Written(m, p) == \A i \in 0..(HDR - 1) : m[p.lo + i] # Indet

\* block->next, block->size and the assignments to them
NextOf(m, block) == Load32(m, block.lo + OffNext)

SizeOf(m, block) == Load32(m, block.lo + OffSize)

SetNext(m, block, v) == Store32(m, block.lo + OffNext, v)

SetSize(m, block, v) == Store32(m, block.lo + OffSize, v)

IS_BLOCK_FREE(m, block) == ~TestBit(SizeOf(m, block), FREE_BIT_MASK)

\* the header at p lies inside the buffer [heap, heap + size)
InHeap(heap, size, p) == p.hi = 0 /\ heap <= p.lo /\ p.lo + HDR <= heap + size

(***************************************************************************)
(* The state.                                                              *)
(*   heapSize, m_heap, m_firstFree, mem : the allocator and its buffer     *)
(*   status     : "running", or why the program stopped                    *)
(*   live       : payload pointers returned and not yet handed to Free     *)
(*   returned   : every payload pointer ever returned                      *)
(*   ubSeen     : an access outside the buffer has happened                *)
(*   calls      : the number of calls made so far                          *)
(*   last       : the last call: its arguments, its result and the path    *)
(*                it took through the code                                 *)
(***************************************************************************)
VARIABLES heapSize, m_heap, m_firstFree, mem, status,
          live, returned, ubSeen, calls, last

vars == <<heapSize, m_heap, m_firstFree, mem, status,
          live, returned, ubSeen, calls, last>>

\* the heap sizes next to MaxHeapSize, multiples of 8 and not
HeapSizes == {MaxHeapSize - k : k \in 0..3}

\* the heap sizes the constructor alone is explored with
CtorHeapSizes == HDR..MaxHeapSize

AllocOps == {"AllocateAligned", "Allocate"}

\* the nodes of the free list in list order, up to the first null, unmapped
\* or repeated node
RECURSIVE ListFrom(_, _, _)
ListFrom(m, block, visited) ==
    IF block = NULL \/ ~Mapped(block) \/ block \in visited THEN <<>>
    ELSE <<block>> \o ListFrom(m, NextOf(m, block), visited \cup {block})

FreeList == ListFrom(mem, m_firstFree, {})

FreeNodes == {FreeList[i] : i \in 1..Len(FreeList)}

\* the free list as a caller can observe it: the head, and each node's
\* address, size word and link
ListView ==
    [head |-> m_firstFree,
     nodes |-> [i \in 1..Len(FreeList) |->
                   [addr |-> FreeList[i],
                    size |-> SizeOf(mem, FreeList[i]),
                    next |-> NextOf(mem, FreeList[i])]]]

NoView == [head |-> NULL, nodes |-> <<>>]

\* the record of a call; before is the free list an allocation started from
Call(op, numBytes, alignment, ptr, ret, path) ==
    [op |-> op, numBytes |-> numBytes, alignment |-> alignment, ptr |-> ptr,
     ret |-> ret, path |-> path,
     before |-> IF op \in AllocOps THEN ListView ELSE NoView]

(***************************************************************************)
(* FreeListAllocator::FreeListAllocator( u32 heapSize )                    *)
(***************************************************************************)
CtorFirstFree(heap) == MemUtils_Align(U(heap), ALIGN_8)

CtorSize(size, heap) ==
    Sub32(Sub32(U(size), ALIGNED_HEADER_SIZE), Sub32(CtorFirstFree(heap), U(heap)))

CtorMem(size, heap) ==
    LET first == CtorFirstFree(heap)
        m0 == [a \in Addr |-> Indet]
        m1 == SetNext(m0, first, NULL)
    IN  SetSize(m1, first, CtorSize(size, heap))

Constructed(size, heap) ==
    /\ heapSize = size
    /\ m_heap = heap
    /\ m_firstFree = CtorFirstFree(heap)
    /\ live = {}
    /\ returned = {}
    /\ calls = 0
    /\ last = Call("Construct", U(size), ALIGN_8, NULL, NULL, "constructed")
    /\ IF InHeap(heap, size, CtorFirstFree(heap))
       THEN /\ mem = CtorMem(size, heap)
            /\ status = "running"
            /\ ubSeen = FALSE
       ELSE \* the header is written past the end of the buffer
            /\ ubSeen = TRUE
            /\ \/ mem = CtorMem(size, heap) /\ status = "running"
               \/ mem = [a \in Addr |-> Indet] /\ status = "trap"

\* malloc returns 8-byte aligned memory on the 32-bit targets this code is
\* written for, so the operations are explored from an aligned base: on a
\* heap whose size is a multiple of 8 (Init), and on the sizes next to it
\* (InitSizes)
Init == Constructed(MaxHeapSize, AlignedBase)

InitSizes == \E size \in HeapSizes : Constructed(size, AlignedBase)

\* the constructor on every heap size and every padding 0..7
InitCtor == \E size \in CtorHeapSizes, heap \in Bases : Constructed(size, heap)

(***************************************************************************)
(* FreeListAllocator::AllocateAligned                                      *)
(***************************************************************************)
\* lines 75-87: the size searched for
SizeNeeded(numBytes, alignment) ==
    LET atLeast == IF Lt32(numBytes, ALIGNED_HEADER_SIZE)
                   THEN ALIGNED_HEADER_SIZE ELSE numBytes
    IN  Add32(MemUtils_Align(atLeast, alignment), ALIGNED_HEADER_SIZE)

\* line 97: whether the search stops at a block of this size
Fits(sizeNeeded, size) == Le32(sizeNeeded, size)

\* lines 89-104: the first-fit walk.  res is "found", "null" (the end of the
\* list), "hang" (the walk entered a cycle of blocks that are all too
\* small, so the loop never ends), "wild" (a node outside the modelled
\* address space) or "indet" (a node whose header was never written).
RECURSIVE FirstFit(_, _, _, _, _)
FirstFit(m, sizeNeeded, prevBlock, block, visited) ==
    IF block = NULL
    THEN [res |-> "null", prevBlock |-> prevBlock, block |-> block, visited |-> visited]
    ELSE IF ~Mapped(block)
    THEN [res |-> "wild", prevBlock |-> prevBlock, block |-> block, visited |-> visited]
    ELSE IF ~Written(m, block)
    THEN [res |-> "indet", prevBlock |-> prevBlock, block |-> block, visited |-> visited]
    ELSE IF Fits(sizeNeeded, SizeOf(m, block))
    THEN [res |-> "found", prevBlock |-> prevBlock, block |-> block,
          visited |-> visited \cup {block}]
    ELSE IF NextOf(m, block) \in visited \cup {block}
    THEN [res |-> "hang", prevBlock |-> prevBlock, block |-> block,
          visited |-> visited \cup {block}]
    ELSE FirstFit(m, sizeNeeded, block, NextOf(m, block), visited \cup {block})

\* line 115: whether the found block is split
Splits(sizeNeeded, size) == Le32(Add32(sizeNeeded, MIN_ALLOC_SIZE), size)

\* lines 117-128: the split of block, as the four assignments in order
SplitBlock(m, block, sizeNeeded) ==
    LET newBlock == Add32(block, sizeNeeded)
        m1 == SetNext(m, newBlock, NextOf(m, block))
        m2 == SetSize(m1, newBlock, Sub32(SizeOf(m1, block), sizeNeeded))
        m3 == SetNext(m2, block, newBlock)
    IN  SetSize(m3, block, Sub32(sizeNeeded, ALIGNED_HEADER_SIZE))

\* lines 131-143: the removal of block from the list
UnlinkMem(m, prevBlock, block) ==
    IF prevBlock # NULL THEN SetNext(m, prevBlock, NextOf(m, block)) ELSE m

UnlinkHead(m, firstFree, prevBlock) ==
    IF prevBlock # NULL THEN firstFree ELSE NextOf(m, firstFree)

\* lines 145-148: the block leaves the list and is flagged in use
MarkUsed(m, block) ==
    LET m1 == SetNext(m, block, NULL)
    IN  SetSize(m1, block, OrBit(SizeOf(m1, block), FREE_BIT_MASK))

\* line 150: the payload pointer of a block
PayloadOf(block) == Add32(block, ALIGNED_HEADER_SIZE)

\* The whole call on memory m with list head firstFree; checked says whether
\* DEBUG_ASSERT is compiled in.  res is "ok" (the call returned ret),
\* "abort" (DEBUG_ASSERT failed), or
\* one of the walk's "hang", "wild", "indet"; touched holds the headers the
\* call read or wrote.
AllocateAlignedResult(m, firstFree, numBytes, alignment, checked) ==
    LET sizeNeeded == SizeNeeded(numBytes, alignment)
        f == FirstFit(m, sizeNeeded, NULL, firstFree, {})
        block == f.block
        same == [res |-> f.res, mem |-> m, firstFree |-> firstFree, ret |-> NULL,
                 path |-> "no fit", touched |-> f.visited]
    IN  IF f.res # "found" THEN [same EXCEPT !.res = IF f.res = "null" THEN "ok" ELSE f.res]
        ELSE IF checked /\ ~IS_BLOCK_FREE(m, block) THEN [same EXCEPT !.res = "abort"]
        ELSE LET split == Splits(sizeNeeded, SizeOf(m, block))
                 newBlock == Add32(block, sizeNeeded)
             IN  IF split /\ ~Mapped(newBlock)
                 THEN [same EXCEPT !.res = "wild", !.touched = f.visited \cup {newBlock}]
                 ELSE LET m4 == IF split THEN SplitBlock(m, block, sizeNeeded) ELSE m
                          m5 == UnlinkMem(m4, f.prevBlock, block)
                      IN  [res |-> "ok",
                           path |-> IF split THEN "split" ELSE "whole",
                           mem |-> MarkUsed(m5, block),
                           firstFree |-> UnlinkHead(m4, firstFree, f.prevBlock),
                           ret |-> PayloadOf(block),
                           touched |-> f.visited \cup (IF split THEN {newBlock} ELSE {})]

\* The step a call's result makes.  An access outside the buffer is
\* undefined behaviour: the program traps, or the access goes through to
\* the memory around the buffer when the model holds it.  Memory that an
\* earlier access went through to is there (backed): a later access to it
\* goes through as well.
Outcome(call, r, liveAfter, returnedAfter) ==
    LET inside == \A p \in r.touched : InHeap(m_heap, heapSize, p)
        backed == \A p \in r.touched :
                      InHeap(m_heap, heapSize, p) \/ (Mapped(p) /\ Written(mem, p))
        goesOn == /\ mem' = r.mem
                  /\ m_firstFree' = r.firstFree
                  /\ live' = liveAfter
                  /\ returned' = returnedAfter
                  /\ status' = "running"
                  /\ last' = [call EXCEPT !.path = r.path]
        stops(why, path) == /\ UNCHANGED <<mem, m_firstFree, live, returned>>
                            /\ status' = why
                            /\ last' = [call EXCEPT !.ret = NULL, !.path = path]
    IN  /\ calls < MaxCalls
        /\ calls' = calls + 1
        /\ UNCHANGED <<heapSize, m_heap>>
        /\ IF r.res = "ok"
           THEN IF inside
                THEN goesOn /\ UNCHANGED ubSeen
                ELSE /\ ubSeen' = TRUE
                     /\ goesOn \/ (~backed /\ stops("trap", "outside"))
           ELSE IF r.res \in {"abort", "hang"}
           THEN stops(r.res, r.res) /\ ubSeen' = (ubSeen \/ ~inside)
           ELSE stops("trap", r.res) /\ ubSeen' = TRUE

NumBytesSet ==
    {U(n) : n \in {8, 9, 40}} \cup {Sub32(NULL, U(8))}

Alignments == {2 ^ k : k \in {0, 3, MaxAlignExp}}

\* a debug build checks DEBUG_ASSERT, a release build compiles it out
Builds == BOOLEAN

AllocateAligned(numBytes, alignment) ==
    /\ status = "running"
    /\ \E checked \in Builds :
        LET r == AllocateAlignedResult(mem, m_firstFree, numBytes, alignment, checked)
            got == IF r.ret = NULL THEN {} ELSE {r.ret}
        IN  Outcome(Call("AllocateAligned", numBytes, alignment, NULL, r.ret, r.path), r,
                    live \cup got, returned \cup got)

\* lines 57-60
Allocate(numBytes) ==
    /\ status = "running"
    /\ \E checked \in Builds :
        LET r == AllocateAlignedResult(mem, m_firstFree, numBytes, ALIGN_8, checked)
            got == IF r.ret = NULL THEN {} ELSE {r.ret}
        IN  Outcome(Call("Allocate", numBytes, ALIGN_8, NULL, r.ret, r.path), r,
                    live \cup got, returned \cup got)

(***************************************************************************)
(* FreeListAllocator::Free                                                 *)
(***************************************************************************)
\* line 182: the header of a payload pointer
HeaderOf(ptr) == Sub32(ptr, ALIGNED_HEADER_SIZE)

\* lines 194-202: the walk to the insertion point.  res is "done", or
\* "hang", "wild", "indet" as in FirstFit.
RECURSIVE FindAdjacent(_, _, _, _, _)
FindAdjacent(m, block, prevBlock, nextBlock, visited) ==
    IF ~(nextBlock # NULL /\ Lt32(nextBlock, block))
    THEN [res |-> "done", prevBlock |-> prevBlock, nextBlock |-> nextBlock,
          visited |-> visited]
    ELSE IF ~Mapped(nextBlock)
    THEN [res |-> "wild", prevBlock |-> prevBlock, nextBlock |-> nextBlock,
          visited |-> visited]
    ELSE IF ~Written(m, nextBlock)
    THEN [res |-> "indet", prevBlock |-> prevBlock, nextBlock |-> nextBlock,
          visited |-> visited]
    ELSE IF NextOf(m, nextBlock) \in visited \cup {nextBlock}
    THEN [res |-> "hang", prevBlock |-> prevBlock, nextBlock |-> nextBlock,
          visited |-> visited \cup {nextBlock}]
    ELSE FindAdjacent(m, block, nextBlock, NextOf(m, nextBlock),
                      visited \cup {nextBlock})

\* lines 209-211 and 233-235: the address right after a block
EndOf(m, block) == Add32(Add32(block, SizeOf(m, block)), ALIGNED_HEADER_SIZE)

\* lines 204-219: the link from prevBlock, and the merge with it.  Gives the
\* memory and the block the rest of Free goes on with.
JoinPrev(m, prevBlock, block, nextBlock) ==
    IF prevBlock = NULL THEN [mem |-> m, block |-> block]
    ELSE LET m1 == SetNext(m, prevBlock, block)
         IN  IF EndOf(m1, prevBlock) = block
             THEN LET m2 == SetSize(m1, prevBlock,
                                Add32(SizeOf(m1, prevBlock),
                                      Add32(SizeOf(m1, block), ALIGNED_HEADER_SIZE)))
                  IN  [mem |-> SetNext(m2, prevBlock, nextBlock), block |-> prevBlock]
             ELSE [mem |-> m1, block |-> block]

\* lines 228-241: the link to nextBlock, and the merge with it
JoinNext(m, block, nextBlock) ==
    IF nextBlock = NULL THEN m
    ELSE LET m1 == SetNext(m, block, nextBlock)
         IN  IF EndOf(m1, block) = nextBlock
             THEN LET m2 == SetSize(m1, block,
                                Add32(SizeOf(m1, block),
                                      Add32(SizeOf(m1, nextBlock), ALIGNED_HEADER_SIZE)))
                  IN  SetNext(m2, block, NextOf(m2, nextBlock))
             ELSE m1

\* lines 175-179: the check that makes Free( NULL ) return
IsNullPtrNever(ptr) == FALSE

IsNullPtr(ptr) == ptr = NULL

\* lines 184-188: the check that makes a second Free of a block return
AlreadyFreeNever(m, block) == FALSE

AlreadyFree(m, block) == IS_BLOCK_FREE(m, block)

\* The whole call.  res and touched are as in AllocateAlignedResult.
FreeResult(m, firstFree, ptr) ==
    LET block == HeaderOf(ptr)
        same == [res |-> "ok", mem |-> m, firstFree |-> firstFree, ret |-> NULL,
                 path |-> "null", touched |-> {}]
    IN  IF IsNullPtr(ptr) THEN same
        ELSE IF ~Mapped(block) THEN [same EXCEPT !.res = "wild", !.touched = {block}]
        ELSE IF ~Written(m, block) THEN [same EXCEPT !.res = "indet", !.touched = {block}]
        ELSE IF AlreadyFree(m, block)
        THEN [same EXCEPT !.path = "already free", !.touched = {block}]
        ELSE LET m1 == SetSize(m, block, ClearBit(SizeOf(m, block), FREE_BIT_MASK))
                 w == FindAdjacent(m1, block, NULL, firstFree, {})
                 seen == w.visited \cup {block}
             IN  IF w.res # "done"
                 THEN [same EXCEPT !.res = w.res, !.touched = seen]
                 ELSE IF w.nextBlock # NULL /\ ~Mapped(w.nextBlock)
                 THEN [same EXCEPT !.res = "wild", !.touched = seen \cup {w.nextBlock}]
                 ELSE LET j == JoinPrev(m1, w.prevBlock, block, w.nextBlock)
                      IN  [res |-> "ok",
                           path |-> "freed",
                           mem |-> JoinNext(j.mem, j.block, w.nextBlock),
                           firstFree |-> IF w.prevBlock = NULL THEN block ELSE firstFree,
                           ret |-> NULL,
                           touched |-> seen \cup
                               (IF w.nextBlock # NULL
                                   /\ EndOf(j.mem, j.block) = w.nextBlock
                                THEN {w.nextBlock} ELSE {})]

\* the pointers a caller may hand to Free: null and what it was given
FreeArgs == {NULL} \cup returned

Free(ptr) ==
    /\ status = "running"
    /\ LET r == FreeResult(mem, m_firstFree, ptr)
       IN  Outcome(Call("Free", NULL, ALIGN_8, ptr, NULL, r.path), r,
                   live \ {ptr}, returned)

(***************************************************************************)
(* FreeListAllocator::GetBlockSize                                         *)
(***************************************************************************)
GetBlockSize(m, ptr) == ClearBit(SizeOf(m, HeaderOf(ptr)), FREE_BIT_MASK)

Next ==
    \/ \E numBytes \in NumBytesSet : Allocate(numBytes)
    \/ \E numBytes \in NumBytesSet, alignment \in Alignments :
           AllocateAligned(numBytes, alignment)
    \/ \E ptr \in FreeArgs : Free(ptr)

Spec == Init /\ [][Next]_vars

SpecSizes == InitSizes /\ [][Next]_vars

(***************************************************************************)
(* FreeListAllocator::~FreeListAllocator, and the specification that       *)
(* explores the constructor alone: construct, then destroy.                *)
(***************************************************************************)
Destroy ==
    /\ status = "running"
    /\ status' = "destroyed"
    /\ m_heap' = 0
    /\ last' = Call("Destroy", NULL, ALIGN_8, NULL, NULL, "destroyed")
    /\ UNCHANGED <<heapSize, m_firstFree, mem, live, returned, ubSeen, calls>>

NextCtor == Destroy

SpecCtor == InitCtor /\ [][NextCtor]_vars

(***************************************************************************)
(* What the claims speak of.                                               *)
(***************************************************************************)
\* address a lies in the size bytes that start at address start
InRange(a, start, size) == Lt32(Sub32(a, start), size)

\* the byte ranges [s1, s1 + n1) and [s2, s2 + n2) share a byte
Overlap(s1, n1, s2, n2) == InRange(s2, s1, n1) \/ InRange(s1, s2, n2)

\* the padding between the buffer base and the list head
Padding == m_firstFree.lo - m_heap

\* the payload a request needs: lines 75-87 without the header
PayloadNeeded(numBytes, alignment) ==
    Sub32(SizeNeeded(numBytes, alignment), ALIGNED_HEADER_SIZE)

(***************************************************************************)
(* C1-C10                                                                  *)
(***************************************************************************)

\* C1: the payload address a successful AllocateAligned( numBytes, alignment )
\* returns is a multiple of alignment.
C1_ReturnedAddressAligned ==
    (last.op \in AllocOps /\ last.ret # NULL)
        => ModPow2(last.ret, last.alignment) = 0

\* C2: no two in-use blocks overlap: for distinct live payload pointers p and
\* q the payload of p shares no byte with the payload of q nor with the
\* header of q.
C2_LiveBlocksDisjoint ==
    status = "running" =>
        \A p, q \in live :
            p # q =>
                /\ ~Overlap(p, GetBlockSize(mem, p), q, GetBlockSize(mem, q))
                /\ ~Overlap(p, GetBlockSize(mem, p), HeaderOf(q), ALIGNED_HEADER_SIZE)

\* C3: whenever every pointer that was returned has been freed, the free list
\* is one block at the first aligned address with the size the constructor
\* gave the initial block.
C3_AllFreedOneBlock ==
    (status = "running" /\ live = {}) =>
        /\ m_firstFree = CtorFirstFree(m_heap)
        /\ NextOf(mem, m_firstFree) = NULL
        /\ SizeOf(mem, m_firstFree) = CtorSize(heapSize, m_heap)

\* C4: a request for more bytes than the largest free block holds returns
\* null and leaves the list head and every byte of the buffer as they were.
C4_TooLargeReturnsNull ==
    [][(/\ last'.op \in AllocOps
        /\ \A n \in FreeNodes : Lt32(SizeOf(mem, n), last'.numBytes))
           => (last'.ret = NULL /\ mem' = mem /\ m_firstFree' = m_firstFree)]_vars

\* C5: after p = Allocate( n ) returned non-null, GetBlockSize( p ) is at
\* least n and a multiple of 8.
C5_BlockSizeCoversRequest ==
    (last.op = "Allocate" /\ last.ret # NULL) =>
        /\ Le32(last.numBytes, GetBlockSize(mem, last.ret))
        /\ ModPow2(GetBlockSize(mem, last.ret), ALIGN_8) = 0

\* C6: AllocateAligned returns null only when no free block has the payload
\* capacity the request needs, max( numBytes, ALIGNED_HEADER_SIZE ) rounded
\* up to alignment.
C6_NullOnlyWhenNoBlockLargeEnough ==
    (last.op \in AllocOps /\ last.path = "no fit") =>
        \A n \in FreeNodes :
            ~Le32(PayloadNeeded(last.numBytes, last.alignment), SizeOf(mem, n))

C8_LiveHeaderKept ==
    [][\A p \in live :
          ~(last'.op = "Free" /\ last'.ptr = p)
              => SizeOf(mem', HeaderOf(p)) = SizeOf(mem, HeaderOf(p))]_vars

\* C9: right after construction, for every heapSize >= ALIGNED_HEADER_SIZE
\* and every padding 0..7, the free list is one block at the first aligned
\* address, with next = null, the in-use flag clear, and the size
\* heapSize - ALIGNED_HEADER_SIZE - padding without wrap-around, so that
\* header and payload lie inside the buffer.
C9_ConstructedOneBlock ==
    (last.op = "Construct" /\ status = "running") =>
        /\ m_firstFree.hi = 0
        /\ m_firstFree.lo % ALIGN_8 = 0
        /\ Padding \in 0..(ALIGN_8 - 1)
        /\ FreeList = <<m_firstFree>>
        /\ NextOf(mem, m_firstFree) = NULL
        /\ IS_BLOCK_FREE(mem, m_firstFree)
        /\ heapSize >= HDR + Padding
        /\ SizeOf(mem, m_firstFree) = U(heapSize - HDR - Padding)
        /\ m_firstFree.lo + HDR + SizeOf(mem, m_firstFree).lo <= m_heap + heapSize

\* C10: Free( NULL ) changes neither the list head nor any byte of the
\* buffer, and returns.
C10_FreeNullNoOp ==
    [][(last'.op = "Free" /\ last'.ptr = NULL)
           => (mem' = mem /\ m_firstFree' = m_firstFree /\ status' = status)]_vars

C10_Witness ==
    /\ last.op = "Free"
    /\ last.ptr = NULL
    /\ last.path = "null"
    /\ live # {}

(***************************************************************************)
(* C11-C19                                                                 *)
(***************************************************************************)

\* the walk from the list head ends at null
EndsAtNull ==
    IF FreeList = <<>> THEN m_firstFree = NULL
    ELSE NextOf(mem, FreeList[Len(FreeList)]) = NULL

\* C11: the walk of the free list from m_firstFree visits nodes in strictly
\* ascending address order and ends at null.
C11_FreeListAscending ==
    status = "running" =>
        /\ EndsAtNull
        /\ \A i \in 1..(Len(FreeList) - 1) : Lt32(FreeList[i], FreeList[i + 1])

\* the extent of the block the constructor made: its address and its end
HeapStart == CtorFirstFree(m_heap)

HeapEnd == Add32(Add32(HeapStart, ALIGNED_HEADER_SIZE), CtorSize(heapSize, m_heap))

\* the bytes a block takes: its header and its size, flag masked
Footprint(m, block) ==
    Add32(ALIGNED_HEADER_SIZE, ClearBit(SizeOf(m, block), FREE_BIT_MASK))

\* the blocks met from block on when each footprint leads to the next
\* block, up to end or to the first address that is no block below end
RECURSIVE BlocksFrom(_, _, _, _)
BlocksFrom(m, block, end, visited) ==
    IF block = end \/ ~Mapped(block) \/ ~Written(m, block) \/ block \in visited
       \/ ~Lt32(block, end)
    THEN <<>>
    ELSE <<block>> \o BlocksFrom(m, Add32(block, Footprint(m, block)), end,
                                 visited \cup {block})

Blocks == BlocksFrom(mem, HeapStart, HeapEnd, {})

\* the headers of the blocks in use
InUseHeaders == {HeaderOf(p) : p \in live}

\* C12: the free and the in-use blocks tile the heap: from the first aligned
\* address each block's footprint leads to the next block, the last block
\* ends where the initial block ended, and the blocks met are exactly the
\* free-list nodes and the blocks in use (so the footprints always add up
\* to the initial extent).
C12_BlocksTileHeap ==
    status = "running" =>
        /\ Blocks # <<>>
        /\ Add32(Blocks[Len(Blocks)], Footprint(mem, Blocks[Len(Blocks)])) = HeapEnd
        /\ {Blocks[i] : i \in 1..Len(Blocks)} = FreeNodes \cup InUseHeaders

\* C13: the free list holds exactly the free blocks: every node reachable
\* from m_firstFree has its in-use flag clear, no block in use is reachable
\* from m_firstFree, and the assertion of AllocateAligned that the block
\* found is free never fails.
C13_FreeListHoldsFreeBlocks ==
    /\ status # "abort"
    /\ status = "running" =>
           /\ \A n \in FreeNodes : IS_BLOCK_FREE(mem, n)
           /\ \A h \in InUseHeaders : h \notin FreeNodes

\* C14: the size in every block header, in-use flag masked off, is a
\* multiple of 8, and a free block's size is recovered exactly by setting
\* and then masking the flag.
C14_SizesMultipleOf8 ==
    status = "running" =>
        /\ \A b \in FreeNodes \cup InUseHeaders :
               ModPow2(ClearBit(SizeOf(mem, b), FREE_BIT_MASK), ALIGN_8) = 0
        /\ \A n \in FreeNodes :
               ClearBit(OrBit(SizeOf(mem, n), FREE_BIT_MASK), FREE_BIT_MASK)
                   = SizeOf(mem, n)

\* the free-list nodes whose stored size is at least sizeNeeded
Sufficient(sizeNeeded) == {n \in FreeNodes : Le32(sizeNeeded, SizeOf(mem, n))}

\* C15: a successful AllocateAligned returns the payload of the
\* lowest-address node of the free list whose stored size is at least
\* sizeNeeded.
C15_FirstFitLowestAddress ==
    [][(last'.op \in AllocOps /\ last'.ret # NULL) =>
          LET fit == Sufficient(SizeNeeded(last'.numBytes, last'.alignment))
          IN  /\ HeaderOf(last'.ret) \in fit
              /\ \A n \in fit : ~Lt32(n, HeaderOf(last'.ret))]_vars

\* the list l with node b replaced by node n, and with node b left out
Replaced(l, b, n) == [i \in 1..Len(l) |-> IF l[i] = b THEN n ELSE l[i]]

Without(l, b) == SelectSeq(l, LAMBDA x : x # b)

\* C16: when AllocateAligned takes block B of size S: if S is at least
\* sizeNeeded + 2 * ALIGNED_HEADER_SIZE, the returned block has size
\* sizeNeeded - ALIGNED_HEADER_SIZE and a free block of size S - sizeNeeded
\* at B + sizeNeeded takes B's place in the list, before B's old successor;
\* otherwise B leaves the list whole and keeps size S.  The list keeps its
\* other nodes, so its length changes by 0 or by -1.
C16_SplitOrConsume ==
    [][(last'.op \in AllocOps /\ last'.ret # NULL) =>
          LET sizeNeeded == SizeNeeded(last'.numBytes, last'.alignment)
              B == HeaderOf(last'.ret)
              S == SizeOf(mem, B)
              newBlock == Add32(B, sizeNeeded)
          IN  IF Le32(Add32(sizeNeeded, MIN_ALLOC_SIZE), S)
              THEN /\ GetBlockSize(mem', last'.ret)
                         = Sub32(sizeNeeded, ALIGNED_HEADER_SIZE)
                   /\ FreeList' = Replaced(FreeList, B, newBlock)
                   /\ SizeOf(mem', newBlock) = Sub32(S, sizeNeeded)
                   /\ NextOf(mem', newBlock) = NextOf(mem, B)
              ELSE /\ GetBlockSize(mem', last'.ret) = S
                   /\ FreeList' = Without(FreeList, B)]_vars

\* C17: no two nodes of the free list are address-adjacent: a node N with
\* successor M ends before M begins, N + ALIGNED_HEADER_SIZE + N.size < M.
C17_NoAdjacentFreeNodes ==
    status = "running" =>
        \A N \in FreeNodes :
            NextOf(mem, N) # NULL => Lt32(EndOf(mem, N), NextOf(mem, N))

\* C18: when AllocateAligned returned a non-null p and Free( p ) is the very
\* next call, the free list is again what it was before the allocation:
\* same head, same nodes, same sizes, same links.
C18_AllocateFreeRoundTrip ==
    [][(/\ last.op \in AllocOps
        /\ last.ret # NULL
        /\ last'.op = "Free"
        /\ last'.ptr = last.ret)
           => (status' = "running" /\ ListView' = last.before)]_vars

\* C19: every AllocateAligned and Free call terminates: neither the
\* first-fit search nor the search for the insertion point walks a part of
\* the list it has already walked.
C19_CallsTerminate == status # "hang"

====
